---------------------------- MODULE Spec2Model ----------------------------
(***************************************************************************)
(* Model of SuperGridAlgo (vnpy/app/algo_trading/algos/super_grid_algo.py) *)
(* as a state machine: the grid state kept by the algo object, the events  *)
(* on_tick / on_order / on_trade / on_position delivered by the engine,    *)
(* and the calls the algo makes to its engine (sell, buy, cancel_all,      *)
(* put_variables_event).                                                   *)
(*                                                                         *)
(* Numbers.  Prices, fill volumes and positions are whole numbers taken    *)
(* from small ranges.  What the source computes from them with / and *     *)
(* (the percentages (a - b) / d * 100, the quotient of two percentages,    *)
(* order_amount / price, and the volume of an order) is a Python float:    *)
(* an IEEE-754 binary64 value, rounded to nearest-even after every         *)
(* operation, so that (a - b) / d * 100 need not equal the exact           *)
(* percentage and the volume of an order need not be whole.  A             *)
(* breadth-first run of the Python class over the same settings and        *)
(* events generates the same number of transitions and of distinct states  *)
(* as this module.                                                         *)
(***************************************************************************)
EXTENDS Integers, Sequences, FiniteSets, TLC

(***************************************************************************)
(* Bounds of the model.                                                    *)
(***************************************************************************)
\* Ticks carry last_price in PriceLo .. PriceLo + PriceSpan; the corridor is
\* PriceLo + 1 .. PriceLo + PriceSpan - 1.
PriceSpan == 4
\* Largest number of lots in one fill and in a position report.
MaxVol == 1
\* Fills stop when |pos| would exceed MaxPos.
MaxPos == 2
\* Orders per side the gateway reports on (sent and not yet inactive).
MaxOpen == 1
MaxUnfilled == 2

(***************************************************************************)
(* Values.                                                                 *)
(***************************************************************************)
\* Lowest price of a snapshot (one below every lower_price used).
PriceLo == 8
Prices == PriceLo .. (PriceLo + PriceSpan)

\* Optional[float]: None is the empty set, a value p is {p}.
None == {}
Some(p) == {p}
Val(o) == CHOOSE x \in o : TRUE

Max(a, b) == IF a >= b THEN a ELSE b
Min(a, b) == IF a <= b THEN a ELSE b

LIMIT == "LIMIT"
MARKET == "MARKET"
LONG == "LONG"
SHORT == "SHORT"

(***************************************************************************)
(* Python floats.  A float is the record [sign, whole, frac]: sign is -1, 0 *)
(* or 1, whole is the whole part of the magnitude, and frac holds the      *)
(* binary digits after the point in groups of LimbBits digits, up to the   *)
(* last group that is not 0.  With Limb = 2^LimbBits the value is          *)
(*     sign * (whole + frac[1] / Limb + frac[2] / Limb^2 + ...)            *)
(* so 4.5 is [sign |-> 1, whole |-> 4, frac |-> <<Limb \div 2>>] and 0.0   *)
(* is Zero.  A float has at most Precision significant binary digits,      *)
(* counted from the leading 1 of its magnitude.  Every operation returns   *)
(* the float nearest to the exact result, ties to the even mantissa, as    *)
(* the hardware does; equal values are equal records.  Magnitudes stay     *)
(* below 2^30.                                                             *)
(***************************************************************************)
\* Significant binary digits of a float (IEEE 754 binary64).
Precision == 53
\* Long multiplication and division work on groups of LimbBits digits.
LimbBits == 14

Abs(n) == IF n < 0 THEN -n ELSE n
Sign(n) == IF n > 0 THEN 1 ELSE IF n < 0 THEN -1 ELSE 0

Pow2 == [n \in 0 .. 30 |-> LET p[i \in 0 .. 30] == IF i = 0 THEN 1 ELSE 2 * p[i - 1] IN p[n]]
Limb == Pow2[LimbBits]

\* The number of binary digits of n, 0 <= n < 2^30.
BitLen(n) == Cardinality({l \in 0 .. 30 : Pow2[l] <= n})

\* The integer whose binary digits are d, most significant first.
BitsInt(d) ==
    LET v[i \in 0 .. Len(d)] == IF i = 0 THEN 0 ELSE 2 * v[i - 1] + d[i] IN v[Len(d)]

Zero == [sign |-> 0, whole |-> 0, frac |-> <<>>]

\* The magnitude of x in groups of LimbBits digits: five groups for the
\* whole part, the first two of them 0, then the groups of the fraction.
Limbs(x) ==
    <<0, 0, x.whole \div (Limb * Limb), (x.whole \div Limb) % Limb, x.whole % Limb>>
        \o x.frac
\* The binary digits before the point in Limbs(x), and in what is computed
\* from it.
WholeBits == 5 * LimbBits

\* The digits of the groups l, LimbBits digits for each.
BitsOf(l) ==
    [i \in 1 .. (LimbBits * Len(l)) |->
        (l[(i - 1) \div LimbBits + 1] \div Pow2[LimbBits - 1 - ((i - 1) % LimbBits)]) % 2]

\* The digits d in groups of LimbBits, up to the last group that is not 0,
\* that group filled up with zeros.
LimbsOf(d) ==
    LET ones == {i \in DOMAIN d : d[i] = 1}
        last == IF ones = {} THEN 0 ELSE CHOOSE i \in ones : \A j \in ones : j <= i
    IN  [g \in 1 .. ((last + LimbBits - 1) \div LimbBits) |->
            BitsInt([i \in 1 .. LimbBits |->
                        IF LimbBits * (g - 1) + i <= Len(d)
                        THEN d[LimbBits * (g - 1) + i] ELSE 0])]

\* Long division of the groups l by k, 0 < k < 2^17: the groups of the
\* quotient, enough of them to hold Precision digits and one more after its
\* leading 1, and a last group 1 when a remainder is left.
QuotLimbs(l, k) ==
    LET n == Len(l) + (BitLen(k) + Precision) \div LimbBits + 2
        t[i \in 1 .. n] ==
            (IF i = 1 THEN 0 ELSE (t[i - 1] % k) * Limb) + (IF i <= Len(l) THEN l[i] ELSE 0)
    IN  [i \in 1 .. n |-> t[i] \div k] \o (IF t[n] % k = 0 THEN <<>> ELSE <<1>>)

\* Long multiplication of the groups l by k, 0 <= k < 2^17; the first two
\* groups of l are 0 and take what is carried.
MulLimbs(l, k) ==
    LET t[i \in 1 .. Len(l)] ==
            l[i] * k + (IF i = Len(l) THEN 0 ELSE t[i + 1] \div Limb)
    IN  [i \in 1 .. Len(l) |-> t[i] % Limb]

\* The digits d[1] .. d[last], plus one in the last place: z is the place of
\* the last 0 among them.
RoundUp(d, last, z) ==
    [i \in 1 .. last |-> IF i < z THEN d[i] ELSE IF i = z THEN 1 ELSE 0]

\* The digits d cut after place last, to the nearest, ties to the even
\* digit in that place; d[1] = 0.
RoundAt(d, last) ==
    IF last >= Len(d) THEN d
    ELSE IF d[last + 1] = 1
            /\ (d[last] = 1 \/ \E i \in (last + 2) .. Len(d) : d[i] = 1)
    THEN RoundUp(d, last,
                 CHOOSE i \in 1 .. last : d[i] = 0 /\ \A j \in (i + 1) .. last : d[j] = 1)
    ELSE SubSeq(d, 1, last)

\* The digits d rounded to Precision digits from the leading 1; d[1] = 0.
Round(d) ==
    IF \A i \in DOMAIN d : d[i] = 0 THEN d
    ELSE RoundAt(d, (CHOOSE i \in DOMAIN d : d[i] = 1 /\ \A j \in 1 .. (i - 1) : d[j] = 0)
                        + Precision - 1)

\* The float of a sign and of the digits r of a magnitude below 2^30, the
\* first WholeBits of them before the point.
Pack(sign, r) ==
    [sign |-> sign,
     whole |-> BitsInt(SubSeq(r, 1, WholeBits)),
     frac |-> LimbsOf(SubSeq(r, WholeBits + 1, Len(r)))]

\* float(n) for an integer n, |n| < 2^30.
Float(n) == [sign |-> Sign(n), whole |-> Abs(n), frac |-> <<>>]

\* x / k for a float x and an integer k, 0 < |k| < 2^17.
FloatDiv(x, k) ==
    Pack(x.sign * Sign(k), Round(BitsOf(QuotLimbs(Limbs(x), Abs(k)))))

\* x * k for a float x and an integer k, |k| < 2^17.
FloatMul(x, k) ==
    Pack(x.sign * Sign(k), Round(BitsOf(MulLimbs(Limbs(x), Abs(k)))))

\* x is a whole number.
IsWhole(x) == x.frac = <<>>

\* math.floor(x) and math.ceil(x)
Floor(x) ==
    IF x.sign >= 0 \/ IsWhole(x) THEN x.sign * x.whole ELSE -(x.whole + 1)
Ceil(x) ==
    IF x.sign <= 0 \/ IsWhole(x) THEN x.sign * x.whole ELSE x.whole + 1

\* The comparisons of a float v with a whole number n.
GE(v, n) == Floor(v) >= n
LT(v, n) == Floor(v) < n
GT(v, n) == Ceil(v) > n
LE(v, n) == Ceil(v) <= n

\* min(v, n) for a float v and a whole n (lines 194 and 236)
FloatMin(v, n) == IF LE(v, n) THEN v ELSE Float(n)

\* vnpy.trader.utility.floor_to / ceil_to: value rounded down (up) to a
\* multiple of target, through Decimal(str(value)); the number of targets is
\* whole, and so is the result for a whole target.
floor_to(value, target) == (Floor(value) \div target) * target
ceil_to(value, target) == (-((-Ceil(value)) \div target)) * target

VARIABLES
    setting,        \* the setting dict read by __init__ (never written later)
    pos,            \* self.pos
    vt_orderid,     \* self.vt_orderid
    grid_sleep,     \* self.grid_sleep
    touch_up,       \* self.touch_up
    touch_dn,       \* self.touch_dn
    lowest_price,   \* self.lowest_price   (None or Some(p))
    highest_price,  \* self.highest_price  (None or Some(p))
    trigger_price,  \* self.trigger_price
    intents,        \* the sell()/buy() calls made by the last handler, in order
    cancels,        \* number of cancel_all() calls made by the last handler
    puts,           \* the put_variables_event() calls of the last handler:
                    \* each is the value of `variables` at the time of the call
    raised,         \* TRUE iff the last handler ended in ZeroDivisionError
    open,           \* gateway: orders sent and not yet reported inactive, per side
    active,         \* self.active
    op              \* the last event delivered, with the inputs the claims read

vars == <<setting, pos, vt_orderid, grid_sleep, touch_up, touch_dn,
          lowest_price, highest_price, trigger_price,
          intents, cancels, puts, raised, open, active, op>>

(***************************************************************************)
(* The settings the model is run with.                                     *)
(***************************************************************************)
LowerPrice == PriceLo + 1
UpperPrice == PriceLo + PriceSpan - 1

\* default_setting (lines 13-32) on the model's scale: the corridor is
\* LowerPrice .. UpperPrice, the thresholds are whole percents, order_volume
\* is one lot.
default_setting ==
    [ lower_price    |-> LowerPrice,
      upper_price    |-> UpperPrice,
      trigger_price  |-> LowerPrice + 1,
      rise_percent   |-> 10,
      fall_down      |-> 0,
      fall_percent   |-> 10,
      rise_up        |-> 0,
      order_type     |-> LIMIT,
      order_volume   |-> 1,
      order_amount   |-> 0,
      max_position   |-> 0,
      min_position   |-> 0,
      multiple_order |-> TRUE,
      give_up_bias   |-> 0,
      buy_offset     |-> 0,
      sell_offset    |-> 0 ]

\* The settings an algo is started with: the default and variations of it.
Settings ==
    { default_setting,
      \* market orders at bid / ask
      [default_setting EXCEPT !.order_type = MARKET, !.multiple_order = FALSE],
      \* only the sell waits for a retrace
      [default_setting EXCEPT !.fall_down = 8],
      \* both sides wait for a retrace
      [default_setting EXCEPT !.fall_down = 8, !.rise_up = 8],
      \* only the sell waits for a retrace, with the bias control
      [default_setting EXCEPT !.fall_down = 8, !.give_up_bias = 15],
      \* only the buy waits for a retrace, with the bias control, market orders
      [default_setting EXCEPT !.rise_up = 8, !.give_up_bias = 15,
                              !.order_type = MARKET],
      \* bias control alone
      [default_setting EXCEPT !.give_up_bias = 15, !.multiple_order = FALSE],
      \* position limits, both below the largest position an account reports
      [default_setting EXCEPT !.min_position = 1, !.max_position = 1],
      \* trigger_price left at 0, to be seeded by on_position
      [default_setting EXCEPT !.trigger_price = 0],
      \* arm on any move
      [default_setting EXCEPT !.rise_percent = 0, !.fall_percent = 0],
      \* volume from order_amount, which does not divide every price; limit
      \* prices moved by the offsets
      [default_setting EXCEPT !.order_amount = 3, !.buy_offset = 1,
                              !.sell_offset = 1],
      \* market orders, with a bias control tighter than the arming threshold
      [default_setting EXCEPT !.order_type = MARKET, !.multiple_order = FALSE,
                              !.give_up_bias = 5] }

(***************************************************************************)
(* The floats of the handlers.  For the prices and settings of the model   *)
(* each value is computed once and looked up afterwards; for any other     *)
(* argument it is computed on the spot by the same operation.              *)
(***************************************************************************)
\* Prices a handler computes with: last_price, bid_price, ask_price, and a
\* price moved by an offset.
TabPrices == (PriceLo - 1) .. (PriceLo + PriceSpan + 1)
TabNums == -(PriceSpan + 1) .. (PriceSpan + 1)
Percents == {s.rise_percent : s \in Settings} \cup {s.fall_percent : s \in Settings}
Divisors == Percents \ {0}
Amounts == {s.order_amount : s \in Settings} \ {0}

\* table[key] where the table has it, the value computed on the spot otherwise
Lookup(table, key, value) == IF key \in DOMAIN table THEN table[key] ELSE value
Values(table) == {table[key] : key \in DOMAIN table}

TrueDivTable == [a \in TabPrices, b \in Amounts |-> FloatDiv(Float(a), b)]
\* a / b for numbers a and b # 0 (lines 185 and 227)
TrueDiv(a, b) == Lookup(TrueDivTable, <<a, b>>, FloatDiv(Float(a), b))

PctTable ==
    [num \in TabNums, den \in TabPrices |-> FloatMul(FloatDiv(Float(num), den), 100)]
PctValues == Values(PctTable)
\* num / den * 100 for den # 0: the quotient is rounded, then the product
Pct(num, den) ==
    Lookup(PctTable, <<num, den>>, FloatMul(FloatDiv(Float(num), den), 100))

QuotientTable == [p \in PctValues, k \in Divisors |-> FloatDiv(p, k)]
QuotientValues == Values(QuotientTable)
\* p / k for a float p and k # 0 (lines 189 and 231)
Quotient(p, k) == Lookup(QuotientTable, <<p, k>>, FloatDiv(p, k))

BaseVolumes == {Float(s.order_volume) : s \in Settings} \cup Values(TrueDivTable)
Multiples == {m \in {Floor(q) + c : q \in QuotientValues, c \in {0, 1}} \cup {1} : m >= 1}
TimesTable == [v \in BaseVolumes, m \in Multiples |-> FloatMul(v, m)]
\* v * m for a float v and a whole m (lines 191 and 233)
Times(v, m) == Lookup(TimesTable, <<v, m>>, FloatMul(v, m))

(***************************************************************************)
(* The algo object during one handler call: its attributes and the calls   *)
(* made so far.                                                            *)
(***************************************************************************)
Self ==
    [ pos |-> pos, vt_orderid |-> vt_orderid, grid_sleep |-> grid_sleep,
      touch_up |-> touch_up, touch_dn |-> touch_dn,
      lowest_price |-> lowest_price, highest_price |-> highest_price,
      trigger_price |-> trigger_price,
      intents |-> <<>>, cancels |-> 0, puts |-> <<>>, raised |-> FALSE ]

\* The `variables` list, as get_variables() reads it for put_variables_event.
variables(f) ==
    [ pos |-> f.pos, vt_orderid |-> f.vt_orderid, touch_up |-> f.touch_up,
      touch_dn |-> f.touch_dn, lowest_price |-> f.lowest_price,
      highest_price |-> f.highest_price, trigger_price |-> f.trigger_price,
      grid_sleep |-> f.grid_sleep ]

put_variables_event(f) == [f EXCEPT !.puts = Append(@, variables(f))]
cancel_all(f) == [f EXCEPT !.cancels = @ + 1]
ZeroDivisionError(f) == [f EXCEPT !.raised = TRUE]

\* Mutant of Outside: the corridor bounds themselves count as outside.
Outside_Inclusive(last_price) ==
    (last_price >= setting.upper_price) \/ (last_price <= setting.lower_price)

\* lines 132, 139: the corridor test.
Outside(last_price) ==
    (last_price > setting.upper_price) \/ (last_price < setting.lower_price)

\* Mutant of CorridorCheck: waking the grid disarms both sides.
CorridorCheck_ResetOnWake(f, last_price) ==
    IF Outside(last_price)
    THEN LET g == cancel_all(f) IN
         IF ~g.grid_sleep
         THEN put_variables_event([g EXCEPT !.grid_sleep = TRUE])
         ELSE g
    ELSE IF f.grid_sleep
         THEN put_variables_event([f EXCEPT !.grid_sleep = FALSE,
                                            !.touch_up = FALSE,
                                            !.touch_dn = FALSE,
                                            !.highest_price = None,
                                            !.lowest_price = None])
         ELSE f

\* Mutant of CorridorCheck: pending orders are cancelled only when the grid
\* enters sleep.
CorridorCheck_CancelOnEntry(f, last_price) ==
    IF Outside(last_price)
    THEN IF ~f.grid_sleep
         THEN put_variables_event([cancel_all(f) EXCEPT !.grid_sleep = TRUE])
         ELSE f
    ELSE IF f.grid_sleep
         THEN put_variables_event([f EXCEPT !.grid_sleep = FALSE])
         ELSE f

\* lines 131-143: stop the grid outside the corridor, reopen it inside.
CorridorCheck(f, last_price) ==
    IF Outside(last_price)
    THEN LET g == cancel_all(f) IN
         IF ~g.grid_sleep
         THEN put_variables_event([g EXCEPT !.grid_sleep = TRUE])
         ELSE g
    ELSE IF f.grid_sleep
         THEN put_variables_event([f EXCEPT !.grid_sleep = FALSE])
         ELSE f

\* Mutant of Arming: the thresholds are exclusive.
Arming_Strict(f, last_price) ==
    IF last_price > f.trigger_price
    THEN IF f.trigger_price = 0 THEN ZeroDivisionError(f)
         ELSE LET rise_pct == Pct(last_price - f.trigger_price, f.trigger_price) IN
              IF GT(rise_pct, setting.rise_percent)
              THEN [f EXCEPT !.touch_up = TRUE,
                             !.highest_price =
                                 IF @ = None THEN Some(last_price)
                                 ELSE Some(Max(last_price, Val(@)))]
              ELSE f
    ELSE IF last_price < f.trigger_price
    THEN IF f.trigger_price = 0 THEN ZeroDivisionError(f)
         ELSE LET fall_pct == Pct(f.trigger_price - last_price, f.trigger_price) IN
              IF GT(fall_pct, setting.fall_percent)
              THEN [f EXCEPT !.touch_dn = TRUE,
                             !.lowest_price =
                                 IF @ = None THEN Some(last_price)
                                 ELSE Some(Min(last_price, Val(@)))]
              ELSE f
    ELSE f

\* Mutant of Arming: an extreme, once recorded, is not moved by later prices.
Arming_KeepFirstExtreme(f, last_price) ==
    IF last_price > f.trigger_price
    THEN IF f.trigger_price = 0 THEN ZeroDivisionError(f)
         ELSE LET rise_pct == Pct(last_price - f.trigger_price, f.trigger_price) IN
              IF GE(rise_pct, setting.rise_percent)
              THEN [f EXCEPT !.touch_up = TRUE,
                             !.highest_price =
                                 IF @ = None THEN Some(last_price) ELSE @]
              ELSE f
    ELSE IF last_price < f.trigger_price
    THEN IF f.trigger_price = 0 THEN ZeroDivisionError(f)
         ELSE LET fall_pct == Pct(f.trigger_price - last_price, f.trigger_price) IN
              IF GE(fall_pct, setting.fall_percent)
              THEN [f EXCEPT !.touch_dn = TRUE,
                             !.lowest_price =
                                 IF @ = None THEN Some(last_price) ELSE @]
              ELSE f
    ELSE f

\* Mutant of Arming: the two sides exclude each other, arming one disarms
\* the other.
Arming_Exclusive(f, last_price) ==
    IF last_price > f.trigger_price
    THEN IF f.trigger_price = 0 THEN ZeroDivisionError(f)
         ELSE LET rise_pct == Pct(last_price - f.trigger_price, f.trigger_price) IN
              IF GE(rise_pct, setting.rise_percent)
              THEN [f EXCEPT !.touch_up = TRUE,
                             !.highest_price =
                                 IF @ = None THEN Some(last_price)
                                 ELSE Some(Max(last_price, Val(@))),
                             !.touch_dn = FALSE,
                             !.lowest_price = None]
              ELSE f
    ELSE IF last_price < f.trigger_price
    THEN IF f.trigger_price = 0 THEN ZeroDivisionError(f)
         ELSE LET fall_pct == Pct(f.trigger_price - last_price, f.trigger_price) IN
              IF GE(fall_pct, setting.fall_percent)
              THEN [f EXCEPT !.touch_dn = TRUE,
                             !.lowest_price =
                                 IF @ = None THEN Some(last_price)
                                 ELSE Some(Min(last_price, Val(@))),
                             !.touch_up = FALSE,
                             !.highest_price = None]
              ELSE f
    ELSE f

\* lines 149-169: arm the upside or the downside.
Arming(f, last_price) ==
    IF last_price > f.trigger_price
    THEN IF f.trigger_price = 0 THEN ZeroDivisionError(f)
         ELSE LET rise_pct == Pct(last_price - f.trigger_price, f.trigger_price) IN
              IF GE(rise_pct, setting.rise_percent)
              THEN [f EXCEPT !.touch_up = TRUE,
                             !.highest_price =
                                 IF @ = None THEN Some(last_price)
                                 ELSE Some(Max(last_price, Val(@)))]
              ELSE f
    ELSE IF last_price < f.trigger_price
    THEN IF f.trigger_price = 0 THEN ZeroDivisionError(f)
         ELSE LET fall_pct == Pct(f.trigger_price - last_price, f.trigger_price) IN
              IF GE(fall_pct, setting.fall_percent)
              THEN [f EXCEPT !.touch_dn = TRUE,
                             !.lowest_price =
                                 IF @ = None THEN Some(last_price)
                                 ELSE Some(Min(last_price, Val(@)))]
              ELSE f
    ELSE f

\* Mutant of SellPrice: the price of a limit order, whatever the order type.
SellPrice_Limit(last_price, bid_price) ==
    last_price - setting.sell_offset

\* lines 176-180: the sell price.
SellPrice(last_price, bid_price) ==
    IF setting.order_type = LIMIT
    THEN last_price - setting.sell_offset
    ELSE bid_price

\* lines 181-185: the sell volume before multiple and clamp.
SellBaseVolume(sell_price) ==
    IF setting.order_amount > 0
    THEN TrueDiv(sell_price, setting.order_amount)
    ELSE Float(setting.order_volume)

\* Mutant of SellMultiple: the multiple is rounded up, as on the buy side.
SellMultiple_Ceil(f, last_price) ==
    LET rise_pct == Pct(last_price - f.trigger_price, f.trigger_price)
        multiple == Quotient(rise_pct, setting.rise_percent)
    IN  IF LT(multiple, 1) THEN 1 ELSE ceil_to(multiple, 1)

\* lines 188-190: the rise multiple (trigger_price # 0, rise_percent # 0).
SellMultiple(f, last_price) ==
    LET rise_pct == Pct(last_price - f.trigger_price, f.trigger_price)
        multiple == Quotient(rise_pct, setting.rise_percent)
    IN  IF LT(multiple, 1) THEN 1 ELSE floor_to(multiple, 1)

\* Mutant of SellClamp: min_position is ignored.
SellClamp_Off(f, sell_volume) == sell_volume

\* lines 192-197: keep min_position lots.
SellClamp(f, sell_volume) ==
    IF setting.min_position > 0
    THEN IF f.pos > setting.min_position
         THEN FloatMin(sell_volume, f.pos - setting.min_position)
         ELSE Zero
    ELSE sell_volume

\* Mutant of SellSend: the sell is sent and trigger_price moved, but the
\* upside stays armed until a fill.
SellSend_KeepArmed(f, sell_price, sell_volume) ==
    [f EXCEPT !.intents = Append(@, [side |-> SHORT, price |-> sell_price,
                                     volume |-> sell_volume]),
              !.trigger_price = sell_price]

\* Mutant of SellSend: the id the gateway returns is kept in vt_orderid.
SellSend_KeepOrderId(f, sell_price, sell_volume) ==
    [f EXCEPT !.intents = Append(@, [side |-> SHORT, price |-> sell_price,
                                     volume |-> sell_volume]),
              !.vt_orderid = "vt_orderid",
              !.touch_up = FALSE,
              !.highest_price = None,
              !.trigger_price = sell_price]

\* lines 202-205 and 208-211: send the sell, disarm, re-anchor.
SellSend(f, sell_price, sell_volume) ==
    [f EXCEPT !.intents = Append(@, [side |-> SHORT, price |-> sell_price,
                                     volume |-> sell_volume]),
              !.touch_up = FALSE,
              !.highest_price = None,
              !.trigger_price = sell_price]

\* Mutant of SellBias: the bias is only bounded from below.
SellBias_NoUpperBound(f, last_price, sell_price, sell_volume) ==
    IF setting.give_up_bias > 0
    THEN IF f.trigger_price = 0 THEN ZeroDivisionError(f)
         ELSE LET bias == Pct(last_price - f.trigger_price, f.trigger_price) IN
              IF GT(bias, 0)
              THEN SellSend(f, sell_price, sell_volume)
              ELSE f
    ELSE SellSend(f, sell_price, sell_volume)

\* Mutant of SellBias: a sell held back by the bias control still moves
\* trigger_price to the price it would have had.
SellBias_AnchorWhenHeld(f, last_price, sell_price, sell_volume) ==
    IF setting.give_up_bias > 0
    THEN IF f.trigger_price = 0 THEN ZeroDivisionError(f)
         ELSE LET bias == Pct(last_price - f.trigger_price, f.trigger_price) IN
              IF GT(bias, 0) /\ LT(bias, setting.give_up_bias)
              THEN SellSend(f, sell_price, sell_volume)
              ELSE [f EXCEPT !.trigger_price = sell_price]
    ELSE SellSend(f, sell_price, sell_volume)

\* lines 198-211: the give_up_bias gate around the sell.
SellBias(f, last_price, sell_price, sell_volume) ==
    IF setting.give_up_bias > 0
    THEN IF f.trigger_price = 0 THEN ZeroDivisionError(f)
         ELSE LET bias == Pct(last_price - f.trigger_price, f.trigger_price) IN
              IF GT(bias, 0) /\ LT(bias, setting.give_up_bias)
              THEN SellSend(f, sell_price, sell_volume)
              ELSE f
    ELSE SellSend(f, sell_price, sell_volume)

\* Mutant of SellRelease: an armed upside releases whatever the retrace.
SellRelease_NoRetrace(f, last_price, bid_price) ==
    IF ~f.touch_up THEN f
    ELSE IF Val(f.highest_price) = 0 THEN ZeroDivisionError(f)
    ELSE
    LET sell_price == SellPrice(last_price, bid_price) IN
    IF setting.multiple_order /\ (f.trigger_price = 0 \/ setting.rise_percent = 0)
    THEN ZeroDivisionError(f)
    ELSE
    LET v0 == SellBaseVolume(sell_price)
        v1 == IF setting.multiple_order THEN Times(v0, SellMultiple(f, last_price)) ELSE v0
        sell_volume == SellClamp(f, v1)
    IN  SellBias(f, last_price, sell_price, sell_volume)

\* lines 171-211: sell when the price has fallen back from the high.
SellRelease(f, last_price, bid_price) ==
    IF ~f.touch_up THEN f
    ELSE IF Val(f.highest_price) = 0 THEN ZeroDivisionError(f)
    ELSE
    LET fall_dn_pct == Pct(Val(f.highest_price) - last_price, Val(f.highest_price)) IN
    IF ~GE(fall_dn_pct, setting.fall_down) THEN f
    ELSE
    LET sell_price == SellPrice(last_price, bid_price) IN
    IF setting.multiple_order /\ (f.trigger_price = 0 \/ setting.rise_percent = 0)
    THEN ZeroDivisionError(f)
    ELSE
    LET v0 == SellBaseVolume(sell_price)
        v1 == IF setting.multiple_order THEN Times(v0, SellMultiple(f, last_price)) ELSE v0
        sell_volume == SellClamp(f, v1)
    IN  SellBias(f, last_price, sell_price, sell_volume)

\* lines 218-222: the buy price.
BuyPrice(last_price, ask_price) ==
    IF setting.order_type = LIMIT
    THEN last_price + setting.buy_offset
    ELSE ask_price

\* lines 223-227: the buy volume before multiple and clamp.
BuyBaseVolume(buy_price) ==
    IF setting.order_amount > 0
    THEN TrueDiv(buy_price, setting.order_amount)
    ELSE Float(setting.order_volume)

\* lines 230-232: the fall multiple (trigger_price # 0, fall_percent # 0).
BuyMultiple(f, last_price) ==
    LET fall_pct == Pct(f.trigger_price - last_price, f.trigger_price)
        multiple == Quotient(fall_pct, setting.fall_percent)
    IN  IF LT(multiple, 1) THEN 1 ELSE ceil_to(multiple, 1)

\* lines 234-236: stay within max_position lots.
BuyClamp(f, buy_volume) ==
    IF setting.max_position > 0
    THEN FloatMin(buy_volume, setting.max_position - f.pos)
    ELSE buy_volume

\* lines 241-244 and 247-250: send the buy, disarm, re-anchor.
BuySend(f, buy_price, buy_volume) ==
    [f EXCEPT !.intents = Append(@, [side |-> LONG, price |-> buy_price,
                                     volume |-> buy_volume]),
              !.touch_dn = FALSE,
              !.lowest_price = None,
              !.trigger_price = buy_price]

\* Mutant of BuyBias: the unconditional send is not in an else branch, so a
\* buy that passed the bias gate is sent a second time.
BuyBias_NoElse(f, last_price, buy_price, buy_volume) ==
    LET g == IF setting.give_up_bias > 0
             THEN IF f.trigger_price = 0 THEN ZeroDivisionError(f)
                  ELSE LET bias == Pct(f.trigger_price - last_price, f.trigger_price) IN
                       IF GT(bias, 0) /\ LT(bias, setting.give_up_bias)
                       THEN BuySend(f, buy_price, buy_volume)
                       ELSE f
             ELSE f
    IN  IF g.raised THEN g ELSE BuySend(g, buy_price, buy_volume)

\* lines 237-250: the give_up_bias gate around the buy.
BuyBias(f, last_price, buy_price, buy_volume) ==
    IF setting.give_up_bias > 0
    THEN IF f.trigger_price = 0 THEN ZeroDivisionError(f)
         ELSE LET bias == Pct(f.trigger_price - last_price, f.trigger_price) IN
              IF GT(bias, 0) /\ LT(bias, setting.give_up_bias)
              THEN BuySend(f, buy_price, buy_volume)
              ELSE f
    ELSE BuySend(f, buy_price, buy_volume)

\* lines 213-250: buy when the price has bounced from the low.
BuyRelease(f, last_price, ask_price) ==
    IF ~f.touch_dn THEN f
    ELSE IF Val(f.lowest_price) = 0 THEN ZeroDivisionError(f)
    ELSE
    LET rise_up_pct == Pct(last_price - Val(f.lowest_price), Val(f.lowest_price)) IN
    IF ~GE(rise_up_pct, setting.rise_up) THEN f
    ELSE
    LET buy_price == BuyPrice(last_price, ask_price) IN
    IF setting.multiple_order /\ (f.trigger_price = 0 \/ setting.fall_percent = 0)
    THEN ZeroDivisionError(f)
    ELSE
    LET v0 == BuyBaseVolume(buy_price)
        v1 == IF setting.multiple_order THEN Times(v0, BuyMultiple(f, last_price)) ELSE v0
        buy_volume == BuyClamp(f, v1)
    IN  BuyBias(f, last_price, buy_price, buy_volume)

\* Mutant of on_logic: no return while the grid sleeps.
on_logic_NoSleepReturn(f, last_price, ask_price, bid_price) ==
    LET f1 == CorridorCheck(f, last_price)
        f2 == Arming(f1, last_price)
        f3 == IF f2.raised THEN f2 ELSE SellRelease(f2, last_price, bid_price)
        f4 == IF f3.raised THEN f3 ELSE BuyRelease(f3, last_price, ask_price)
    IN  IF f4.raised THEN f4 ELSE put_variables_event(f4)

\* Mutant of on_logic: the return of a sleeping grid comes after the arming.
on_logic_ArmAsleep(f, last_price, ask_price, bid_price) ==
    LET f1 == CorridorCheck(f, last_price)
        f2 == Arming(f1, last_price)
    IN  IF f2.raised \/ f2.grid_sleep THEN f2
        ELSE
        LET f3 == SellRelease(f2, last_price, bid_price)
            f4 == IF f3.raised THEN f3 ELSE BuyRelease(f3, last_price, ask_price)
        IN  IF f4.raised THEN f4 ELSE put_variables_event(f4)

\* Mutant of on_logic: the buy release reads the trigger_price the call
\* started with, not the one the sell release left.
on_logic_BuyFromStartTrigger(f, last_price, ask_price, bid_price) ==
    LET f1 == CorridorCheck(f, last_price) IN
    IF f1.grid_sleep THEN f1
    ELSE
    LET f2 == Arming(f1, last_price)
        f3 == IF f2.raised THEN f2 ELSE SellRelease(f2, last_price, bid_price)
        f4 == IF f3.raised THEN f3
              ELSE LET g == BuyRelease([f3 EXCEPT !.trigger_price = f2.trigger_price],
                                       last_price, ask_price)
                   IN  IF g.intents = f3.intents
                       THEN [g EXCEPT !.trigger_price = f3.trigger_price]
                       ELSE g
    IN  IF f4.raised THEN f4 ELSE put_variables_event(f4)

\* lines 129-253: on_logic, from the algo object f.  An exception ends the
\* handler: the statements after it do not run.
SellPart(f, last_price, bid_price) ==
    IF f.raised THEN f ELSE SellRelease(f, last_price, bid_price)
BuyPart(f, last_price, ask_price) ==
    IF f.raised THEN f ELSE BuyRelease(f, last_price, ask_price)
EndLogic(f) == IF f.raised THEN f ELSE put_variables_event(f)
on_logic(f, last_price, ask_price, bid_price) ==
    LET f1 == CorridorCheck(f, last_price) IN
    IF f1.grid_sleep THEN f1
    ELSE EndLogic(BuyPart(SellPart(Arming(f1, last_price), last_price, bid_price),
                          last_price, ask_price))

\* Mutant of on_trade_logic: the flags are cleared, the extremes are not.
on_trade_logic_KeepExtreme(f, direction, price, volume) ==
    LET g == IF direction = LONG
             THEN [f EXCEPT !.pos = @ + volume, !.touch_up = FALSE]
             ELSE [f EXCEPT !.pos = @ - volume, !.touch_dn = FALSE]
    IN  put_variables_event([g EXCEPT !.trigger_price = price])

\* Mutant of on_trade_logic: a fill disarms both sides.
on_trade_logic_ClearBoth(f, direction, price, volume) ==
    LET g == [f EXCEPT !.pos = IF direction = LONG THEN @ + volume ELSE @ - volume,
                       !.touch_up = FALSE, !.highest_price = None,
                       !.touch_dn = FALSE, !.lowest_price = None]
    IN  put_variables_event([g EXCEPT !.trigger_price = price])

\* Mutant of on_trade_logic: trigger_price is re-anchored only while the grid
\* is awake.
on_trade_logic_AnchorAwake(f, direction, price, volume) ==
    LET g == IF direction = LONG
             THEN [f EXCEPT !.pos = @ + volume,
                            !.touch_up = FALSE,
                            !.highest_price = None]
             ELSE [f EXCEPT !.pos = @ - volume,
                            !.touch_dn = FALSE,
                            !.lowest_price = None]
    IN  put_variables_event(IF g.grid_sleep THEN g
                            ELSE [g EXCEPT !.trigger_price = price])

\* lines 261-274: on_trade, from the algo object f.
on_trade_logic(f, direction, price, volume) ==
    LET g == IF direction = LONG
             THEN [f EXCEPT !.pos = @ + volume,
                            !.touch_up = FALSE,
                            !.highest_price = None]
             ELSE [f EXCEPT !.pos = @ - volume,
                            !.touch_dn = FALSE,
                            !.lowest_price = None]
    IN  put_variables_event([g EXCEPT !.trigger_price = price])

\* Mutant of on_order_logic: an inactive order also disarms both sides.
on_order_logic_Disarm(f, is_active) ==
    IF ~is_active
    THEN put_variables_event([f EXCEPT !.vt_orderid = "",
                                       !.touch_up = FALSE, !.highest_price = None,
                                       !.touch_dn = FALSE, !.lowest_price = None])
    ELSE f

\* lines 255-259: on_order, from the algo object f.
on_order_logic(f, is_active) ==
    IF ~is_active
    THEN put_variables_event([f EXCEPT !.vt_orderid = ""])
    ELSE f

\* Mutant of on_position_logic: trigger_price is seeded on every report.
on_position_logic_AlwaysSeed(f, volume, price) ==
    [f EXCEPT !.pos = volume, !.trigger_price = price]

\* lines 276-280: on_position, from the algo object f.
on_position_logic(f, volume, price) ==
    LET g == [f EXCEPT !.pos = volume] IN
    IF g.trigger_price <= 0
    THEN [g EXCEPT !.trigger_price = price]
    ELSE g

(***************************************************************************)
(* The state machine.                                                      *)
(***************************************************************************)
\* The handler's result becomes the algo object and the calls it made.
Commit(f) ==
    /\ pos' = f.pos
    /\ vt_orderid' = f.vt_orderid
    /\ grid_sleep' = f.grid_sleep
    /\ touch_up' = f.touch_up
    /\ touch_dn' = f.touch_dn
    /\ lowest_price' = f.lowest_price
    /\ highest_price' = f.highest_price
    /\ trigger_price' = f.trigger_price
    /\ intents' = f.intents
    /\ cancels' = f.cancels
    /\ puts' = f.puts
    /\ raised' = f.raised

Sent(f, side) == Cardinality({i \in DOMAIN f.intents : f.intents[i].side = side})

\* lines 45-89: __init__.  The live engine starts the algo before it
\* forwards the first event, so that self.active is true from here on.
Init ==
    /\ setting \in Settings
    /\ pos = 0
    /\ vt_orderid = ""
    /\ grid_sleep = FALSE
    /\ touch_up = FALSE
    /\ touch_dn = FALSE
    /\ lowest_price = None
    /\ highest_price = None
    /\ trigger_price = setting.trigger_price
    /\ intents = <<>>
    /\ cancels = 0
    /\ puts = <<variables(Self)>>
    /\ raised = FALSE
    /\ open = [side \in {LONG, SHORT} |-> 0]
    /\ active = TRUE
    /\ op = [kind |-> "__init__"]

\* lines 116-127: on_tick.  The gateway keeps track of at most MaxOpen orders
\* per side; an order sent beyond that is never reported back.
on_tick(last_price, ask_price, bid_price) ==
    \E f \in {on_logic(Self, last_price, ask_price, bid_price)} :
    /\ Commit(f)
    /\ open' = [side \in {LONG, SHORT} |->
                   Min(MaxOpen, open[side] + Sent(f, side))]
    /\ op' = [kind |-> "on_tick", last_price |-> last_price]
    /\ UNCHANGED <<setting, active>>

\* lines 255-259: on_order, for an order of this algo.
on_order(direction, is_active) ==
    \E f \in {on_order_logic(Self, is_active)} :
    /\ open[direction] > 0
    /\ Commit(f)
    /\ open' = IF is_active THEN open ELSE [open EXCEPT ![direction] = @ - 1]
    /\ op' = [kind |-> "on_order", direction |-> direction, active |-> is_active]
    /\ UNCHANGED <<setting, active>>

\* lines 261-274: on_trade, for a fill of an order of this algo.
on_trade(direction, price, volume) ==
    \E f \in {on_trade_logic(Self, direction, price, volume)} :
    /\ open[direction] > 0
    /\ f.pos \in -MaxPos .. MaxPos
    /\ Commit(f)
    /\ op' = [kind |-> "on_trade", direction |-> direction, price |-> price]
    /\ UNCHANGED <<setting, open, active>>

\* lines 276-280: on_position.
on_position(volume, price) ==
    \E f \in {on_position_logic(Self, volume, price)} :
    /\ Commit(f)
    /\ op' = [kind |-> "on_position"]
    /\ UNCHANGED <<setting, open, active>>

\* PositionData.price: 0 for no position, or a cost inside or outside the
\* corridor.
PositionPrices == {0, PriceLo, LowerPrice + 1}

Next ==
    \/ \E last_price \in Prices :
       \E ask_price \in {last_price, last_price + 1} :
       \E bid_price \in {last_price - 1, last_price} :
          on_tick(last_price, ask_price, bid_price)
    \/ \E direction \in {LONG, SHORT}, is_active \in BOOLEAN :
          on_order(direction, is_active)
    \/ \E direction \in {LONG, SHORT}, price \in Prices, volume \in 1 .. MaxVol :
          on_trade(direction, price, volume)
    \/ \E volume \in 0 .. MaxPos, price \in PositionPrices :
          on_position(volume, price)

Spec == Init /\ [][Next]_vars

\* The algo fed with ticks alone, all of them inside the corridor: no fill,
\* no order report, no position report.
NextInCorridor ==
    \E last_price \in LowerPrice .. UpperPrice :
    \E ask_price \in {last_price, last_price + 1} :
    \E bid_price \in {last_price - 1, last_price} :
       on_tick(last_price, ask_price, bid_price)

SpecInCorridor == Init /\ [][NextInCorridor]_vars

\* The algo fed with ticks alone, inside and outside the corridor.
NextTicks ==
    \E last_price \in Prices :
    \E ask_price \in {last_price, last_price + 1} :
    \E bid_price \in {last_price - 1, last_price} :
       on_tick(last_price, ask_price, bid_price)

SpecTicks == Init /\ [][NextTicks]_vars

\* The algo run with one position limit, with the gateway filling every
\* order at most once and for at most its volume.  Here open[side] is the
\* number of lots sent on that side and not yet filled.
LimitSettings ==
    { [default_setting EXCEPT !.min_position = 1],
      [default_setting EXCEPT !.max_position = 1],
      [default_setting EXCEPT !.min_position = 1, !.multiple_order = FALSE],
      [default_setting EXCEPT !.max_position = 1, !.multiple_order = FALSE] }

\* lines 45-89: __init__, with one of the settings above.
InitFills ==
    /\ setting \in LimitSettings
    /\ pos = 0
    /\ vt_orderid = ""
    /\ grid_sleep = FALSE
    /\ touch_up = FALSE
    /\ touch_dn = FALSE
    /\ lowest_price = None
    /\ highest_price = None
    /\ trigger_price = setting.trigger_price
    /\ intents = <<>>
    /\ cancels = 0
    /\ puts = <<variables(Self)>>
    /\ raised = FALSE
    /\ open = [side \in {LONG, SHORT} |-> 0]
    /\ active = TRUE
    /\ op = [kind |-> "__init__"]

\* The whole lots of the order an on_tick sends on a side (it sends at most
\* one); an order of volume 0 or less has nothing to fill.
Lots(f, side) ==
    LET S == {i \in DOMAIN f.intents : f.intents[i].side = side} IN
    IF S = {} THEN 0 ELSE Max(0, Floor(f.intents[CHOOSE i \in S : TRUE].volume))

\* lines 116-127: on_tick, with the lots it sends added to the unfilled ones.
on_tick_unfilled(last_price, ask_price, bid_price) ==
    \E f \in {on_logic(Self, last_price, ask_price, bid_price)} :
    /\ op.kind # "__init__"
    /\ \A side \in {LONG, SHORT} : open[side] + Lots(f, side) <= MaxUnfilled
    /\ Commit(f)
    /\ open' = [side \in {LONG, SHORT} |-> open[side] + Lots(f, side)]
    /\ op' = [kind |-> "on_tick", last_price |-> last_price]
    /\ UNCHANGED <<setting, active>>

\* lines 261-274: on_trade, for a fill of lots sent and not yet filled.
on_trade_unfilled(direction, price, volume) ==
    \E f \in {on_trade_logic(Self, direction, price, volume)} :
    /\ volume <= open[direction]
    /\ f.pos \in -MaxPos .. MaxPos
    /\ Commit(f)
    /\ open' = [open EXCEPT ![direction] = @ - volume]
    /\ op' = [kind |-> "on_trade", direction |-> direction, price |-> price]
    /\ UNCHANGED <<setting, active>>

\* lines 276-280: on_position, once after construction, reporting a position
\* inside the limits of the setting.
on_position_start(volume, price) ==
    /\ op.kind = "__init__"
    /\ setting.min_position > 0 => volume >= setting.min_position
    /\ setting.max_position > 0 => volume <= setting.max_position
    /\ on_position(volume, price)

NextFills ==
    \/ \E volume \in 0 .. MaxPos, price \in PositionPrices :
          on_position_start(volume, price)
    \/ \E last_price \in Prices :
       \E ask_price \in {last_price, last_price + 1} :
       \E bid_price \in {last_price - 1, last_price} :
          on_tick_unfilled(last_price, ask_price, bid_price)
    \/ \E direction \in {LONG, SHORT}, price \in Prices, volume \in 1 .. MaxVol :
          on_trade_unfilled(direction, price, volume)

SpecFills == InitFills /\ [][NextFills]_vars

\* The algo run by an engine that exposes load_bar: on_init (lines 91-96)
\* binds buy and sell to _buy and _sell and has load_bar feed the stored bars
\* to on_bar; on_start comes after that.  Each bar is one on_bar step, the
\* replayed ones being those taken while active is still false.
InitBacktest ==
    /\ setting \in Settings
    /\ pos = 0
    /\ vt_orderid = ""
    /\ grid_sleep = FALSE
    /\ touch_up = FALSE
    /\ touch_dn = FALSE
    /\ lowest_price = None
    /\ highest_price = None
    /\ trigger_price = setting.trigger_price
    /\ intents = <<>>
    /\ cancels = 0
    /\ puts = <<variables(Self)>>
    /\ raised = FALSE
    /\ open = [side \in {LONG, SHORT} |-> 0]
    /\ active = FALSE
    /\ op = [kind |-> "__init__"]

\* lines 282-332: _buy and _sell return at once, sending nothing, while the
\* algo is not active; on_logic does not read what they return.
backtest_orders(f) == IF active THEN f ELSE [f EXCEPT !.intents = <<>>]

\* lines 104-114: on_bar, the close price as last, ask and bid price.
on_bar(close_price) ==
    \E f \in {backtest_orders(on_logic(Self, close_price, close_price, close_price))} :
    /\ Commit(f)
    /\ open' = [side \in {LONG, SHORT} |->
                   Min(MaxOpen, open[side] + Sent(f, side))]
    /\ op' = [kind |-> "on_bar", last_price |-> close_price]
    /\ UNCHANGED <<setting, active>>

\* lines 99-102: on_start.
on_start ==
    /\ ~active
    /\ active' = TRUE
    /\ intents' = <<>> /\ cancels' = 0 /\ puts' = <<>> /\ raised' = FALSE
    /\ op' = [kind |-> "on_start"]
    /\ UNCHANGED <<setting, pos, vt_orderid, grid_sleep, touch_up, touch_dn,
                   lowest_price, highest_price, trigger_price, open>>

NextBacktest ==
    \/ \E close_price \in Prices : on_bar(close_price)
    \/ on_start
    \/ \E direction \in {LONG, SHORT}, price \in Prices, volume \in 1 .. MaxVol :
          on_trade(direction, price, volume)

SpecBacktest == InitBacktest /\ [][NextBacktest]_vars

(***************************************************************************)
(* Properties.                                                             *)
(***************************************************************************)
IsTick == op.kind = "on_tick"
SentNow(side) == Cardinality({i \in DOMAIN intents : intents[i].side = side})

\* C1: in every reachable state highest_price is defined iff touch_up, and
\* lowest_price is defined iff touch_dn.
C1_ExtremeIffArmed ==
    /\ (highest_price # None) <=> touch_up
    /\ (lowest_price # None) <=> touch_dn

\* C1 witness: a fill has just cleared one side while the other stays armed
\* with its extreme.
C1_Witness ==
    /\ op.kind = "on_trade"
    /\ op.direction = LONG
    /\ ~touch_up /\ highest_price = None
    /\ touch_dn /\ lowest_price # None

\* C2 (the claim, for algos started with trigger_price inside the corridor):
\* whenever the grid is awake, lower_price <= trigger_price <= upper_price.
C2_TriggerInCorridor ==
    (/\ setting.lower_price <= setting.trigger_price
     /\ setting.trigger_price <= setting.upper_price
     /\ ~grid_sleep)
    => (setting.lower_price <= trigger_price /\ trigger_price <= setting.upper_price)

\* C3: after every on_tick, grid_sleep is true exactly when last_price is
\* above upper_price or below lower_price.
C3_SleepIffOutside ==
    IsTick => (grid_sleep <=> (\/ op.last_price > setting.upper_price
                               \/ op.last_price < setting.lower_price))

\* C3 witness: a sleeping grid is woken by a tick exactly at upper_price (the
\* wake-up is the first of the two put_variables_event calls).
C3_Witness ==
    /\ IsTick
    /\ op.last_price = setting.upper_price
    /\ ~grid_sleep
    /\ Len(puts) = 2
    /\ ~puts[1].grid_sleep

\* C4: an on_tick whose last_price is outside the corridor sends no order and
\* leaves touch_up, touch_dn, highest_price, lowest_price, trigger_price and
\* pos unchanged.
C4_SleepFrame ==
    [][ (/\ op'.kind = "on_tick"
         /\ (\/ op'.last_price > setting.upper_price
             \/ op'.last_price < setting.lower_price))
        => (/\ intents' = <<>>
            /\ UNCHANGED <<touch_up, touch_dn, highest_price, lowest_price,
                           trigger_price, pos>>) ]_vars

\* C4 witness: the grid has just been put to sleep by a tick beyond the
\* corridor while both sides were armed, on a setting whose release
\* thresholds are 0.
C4_Witness ==
    /\ IsTick
    /\ grid_sleep
    /\ Len(puts) = 1
    /\ touch_up /\ touch_dn
    /\ setting.rise_up = 0

\* C5: one on_tick sends at most one sell and at most one buy.
C5_AtMostOneEach ==
    IsTick => (SentNow(SHORT) <= 1 /\ SentNow(LONG) <= 1)

\* C5 witness: one on_tick has sent a sell and then a buy.
C5_Witness ==
    /\ IsTick
    /\ Len(intents) = 2
    /\ intents[1].side = SHORT
    /\ intents[2].side = LONG

\* C6 (the claim as written): every sell sent leaves pos - volume >=
\* min_position and every buy sent leaves pos + volume <= max_position, for
\* every setting.
C6_VolumeWithinLimits ==
    IsTick =>
        \A i \in DOMAIN intents :
            /\ intents[i].side = SHORT
                   => LE(intents[i].volume, pos - setting.min_position)
            /\ intents[i].side = LONG
                   => LE(intents[i].volume, setting.max_position - pos)

\* C6 (amended): with min_position > 0 a sell sent leaves pos - volume >=
\* min_position when pos >= min_position and has volume 0 when pos is already
\* below it; with max_position > 0 a buy sent leaves pos + volume <=
\* max_position.
C6_ClampedVolume ==
    IsTick =>
        \A i \in DOMAIN intents :
            /\ (intents[i].side = SHORT /\ setting.min_position > 0)
                   => IF pos >= setting.min_position
                      THEN LE(intents[i].volume, pos - setting.min_position)
                      ELSE intents[i].volume = Zero
            /\ (intents[i].side = LONG /\ setting.max_position > 0)
                   => LE(intents[i].volume, setting.max_position - pos)

\* C6 witness: a sell whose doubled volume was cut down to pos - min_position.
C6_Witness ==
    /\ IsTick
    /\ setting.min_position > 0
    /\ pos > setting.min_position
    /\ \E i \in DOMAIN intents :
           /\ intents[i].side = SHORT
           /\ intents[i].volume = Float(pos - setting.min_position)
           /\ LT(intents[i].volume, 2 * setting.order_volume)
           /\ GE(Pct(op.last_price - setting.lower_price, setting.lower_price),
                 2 * setting.rise_percent)

\* C7 (the claim as written): when the order just sent by an on_tick is
\* reported inactive before anything else happens, the side that produced it
\* is still armed; and a flag is cleared only by a fill.
C7_ArmedUntilFill ==
    [][ /\ (/\ op.kind = "on_tick"
            /\ op'.kind = "on_order"
            /\ ~op'.active
            /\ \E i \in DOMAIN intents : intents[i].side = op'.direction)
           => IF op'.direction = SHORT
              THEN touch_up' /\ highest_price' # None
              ELSE touch_dn' /\ lowest_price' # None
        /\ ((touch_up /\ ~touch_up') \/ (touch_dn /\ ~touch_dn'))
           => op'.kind = "on_trade" ]_vars

\* C7 (amended): the on_tick that sends a sell (buy) has itself cleared
\* touch_up and highest_price (touch_dn and lowest_price), and a report that
\* the order is inactive does not set them again; a flag is cleared only by
\* the on_tick that sends the order of its side or by a fill of the opposite
\* direction (a buy fill clears touch_up, a sell fill clears touch_dn).
C7_DisarmedBySending ==
    [][ /\ (/\ op.kind = "on_tick"
            /\ op'.kind = "on_order"
            /\ ~op'.active
            /\ \E i \in DOMAIN intents : intents[i].side = op'.direction)
           => IF op'.direction = SHORT
              THEN ~touch_up' /\ highest_price' = None
              ELSE ~touch_dn' /\ lowest_price' = None
        /\ (touch_up /\ ~touch_up')
           => \/ op'.kind = "on_tick"
                 /\ \E i \in DOMAIN intents' : intents'[i].side = SHORT
              \/ op'.kind = "on_trade" /\ op'.direction = LONG
        /\ (touch_dn /\ ~touch_dn')
           => \/ op'.kind = "on_tick"
                 /\ \E i \in DOMAIN intents' : intents'[i].side = LONG
              \/ op'.kind = "on_trade" /\ op'.direction = SHORT ]_vars

\* C7 witness: the only open sell has been reported inactive, no fill has
\* changed pos, and the upside is not armed.
C7_Witness ==
    /\ op.kind = "on_order"
    /\ ~op.active
    /\ op.direction = SHORT
    /\ open[SHORT] = 0
    /\ pos = 0
    /\ ~touch_up /\ highest_price = None

\* C8: on_order changes at most vt_orderid: an inactive order clears it, an
\* active order changes nothing; the flags, the extremes, trigger_price, pos
\* and grid_sleep are unchanged.
C8_OrderFrame ==
    [][ op'.kind = "on_order"
        => /\ UNCHANGED <<touch_up, touch_dn, highest_price, lowest_price,
                          trigger_price, pos, grid_sleep>>
           /\ vt_orderid' = IF op'.active THEN vt_orderid ELSE "" ]_vars

\* C8 witness: an order has been reported inactive while both sides are armed.
C8_Witness ==
    /\ op.kind = "on_order"
    /\ ~op.active
    /\ touch_up /\ highest_price # None
    /\ touch_dn /\ lowest_price # None

\* C9 (the claim, for calls that return): every on_tick ends with a
\* put_variables_event that carries the state the call leaves.
C9_AlwaysNotifies ==
    (IsTick /\ ~raised)
    => (/\ Len(puts) >= 1
        /\ puts[Len(puts)] = variables(Self))

\* The step is an on_tick that returned with the grid awake.
C10_Returned == op'.kind = "on_tick" /\ ~grid_sleep' /\ ~raised'
\* The step is an on_tick that passed the corridor check, whether it then
\* returned or ended in ZeroDivisionError.
C10_Awake == op'.kind = "on_tick" /\ ~grid_sleep'
C10_Sold == \E i \in DOMAIN intents' : intents'[i].side = SHORT
C10_Bought == \E i \in DOMAIN intents' : intents'[i].side = LONG
\* The side is armed when the call ends and its release condition holds for
\* the call's last_price: its release was due and sent nothing.
C10_UpHeld ==
    /\ touch_up'
    /\ GE(Pct(Val(highest_price') - op'.last_price, Val(highest_price')),
          setting.fall_down)
C10_DnHeld ==
    /\ touch_dn'
    /\ GE(Pct(op'.last_price - Val(lowest_price'), Val(lowest_price')),
          setting.rise_up)
\* 0 < num / den * 100 < give_up_bias
C10_BiasPasses(num, den) ==
    /\ den # 0
    /\ GT(Pct(num, den), 0)
    /\ LT(Pct(num, den), setting.give_up_bias)
\* trigger_price when the buy branch runs: the sell price if a sell was sent.
C10_TriggerAtBuy ==
    IF C10_Sold
    THEN intents'[CHOOSE i \in DOMAIN intents' : intents'[i].side = SHORT].price
    ELSE trigger_price

\* C10 (the claim): in every on_tick that passes the corridor check, with
\* give_up_bias > 0 a sell is sent only if 0 < bias < give_up_bias; when the
\* release condition is met and the bias fails, the call sends nothing and
\* trigger_price keeps its value (the side stays armed); with
\* give_up_bias = 0 a side whose release condition is met always sends, so
\* that no call ends with that side still armed.  The buy side likewise.
C10_BiasSuppressesCall ==
    [][ C10_Awake =>
        /\ (setting.give_up_bias > 0 /\ C10_Sold)
               => C10_BiasPasses(op'.last_price - trigger_price, trigger_price)
        /\ (setting.give_up_bias > 0 /\ C10_Bought)
               => C10_BiasPasses(C10_TriggerAtBuy - op'.last_price, C10_TriggerAtBuy)
        /\ (setting.give_up_bias > 0 /\ (C10_UpHeld \/ C10_DnHeld))
               => (intents' = <<>> /\ trigger_price' = trigger_price)
        /\ setting.give_up_bias = 0 => (~C10_UpHeld /\ ~C10_DnHeld) ]_vars

\* C11: for every fill (direction, price, volume), the on_trade step it
\* causes, when it is a buy fill, adds volume to pos and clears touch_up and
\* highest_price, leaving touch_dn, lowest_price and grid_sleep unchanged;
\* when it is a sell fill, it subtracts volume from pos and clears touch_dn
\* and lowest_price, leaving touch_up, highest_price and grid_sleep unchanged.
C11_FillEffects ==
    [][ op'.kind = "on_trade" =>
        \A volume \in 1 .. MaxVol :
            on_trade(op'.direction, op'.price, volume) =>
                IF op'.direction = LONG
                THEN /\ pos' = pos + volume
                     /\ ~touch_up' /\ highest_price' = None
                     /\ UNCHANGED <<touch_dn, lowest_price, grid_sleep>>
                ELSE /\ pos' = pos - volume
                     /\ ~touch_dn' /\ lowest_price' = None
                     /\ UNCHANGED <<touch_up, highest_price, grid_sleep>> ]_vars

\* C11 witness: a sell fill has taken pos below zero while the grid sleeps
\* and the upside is armed; the upside is still armed.
C11_Witness ==
    /\ op.kind = "on_trade"
    /\ op.direction = SHORT
    /\ pos < 0
    /\ grid_sleep
    /\ touch_up /\ highest_price # None
    /\ ~touch_dn /\ lowest_price = None

\* C12: after every on_trade, of either direction and asleep or awake,
\* trigger_price is the price of the fill.
C12_TriggerIsFillPrice ==
    op.kind = "on_trade" => trigger_price = op.price

\* C12 witness: a fill at a price below the corridor has been applied while
\* the grid sleeps, and trigger_price is that price.
C12_Witness ==
    /\ op.kind = "on_trade"
    /\ grid_sleep
    /\ op.price < setting.lower_price
    /\ trigger_price = op.price
    /\ trigger_price # setting.trigger_price

\* C13: for every position report (volume, price), the on_position step it
\* causes sets pos to volume, sets trigger_price to price when trigger_price
\* <= 0 and leaves it unchanged otherwise, and changes none of touch_up,
\* touch_dn, highest_price, lowest_price, grid_sleep.
C13_PositionSync ==
    [][ op'.kind = "on_position" =>
        \A volume \in 0 .. MaxPos, price \in PositionPrices :
            on_position(volume, price) =>
                /\ pos' = volume
                /\ trigger_price' = IF trigger_price <= 0 THEN price
                                    ELSE trigger_price
                /\ UNCHANGED <<touch_up, touch_dn, highest_price, lowest_price,
                               grid_sleep>> ]_vars

\* C13 witness: a position report has seeded the trigger_price that the
\* setting left at 0, and has set pos.
C13_Witness ==
    /\ op.kind = "on_position"
    /\ setting.trigger_price = 0
    /\ trigger_price > 0
    /\ pos > 0

\* A configuration that the construction-time validation of the
\* specification lets through: trigger_price inside the corridor and no
\* negative percent threshold.
ValidSetting ==
    /\ setting.lower_price <= setting.trigger_price
    /\ setting.trigger_price <= setting.upper_price
    /\ setting.rise_percent >= 0 /\ setting.fall_percent >= 0
    /\ setting.fall_down >= 0 /\ setting.rise_up >= 0
    /\ setting.give_up_bias >= 0

\* C14 (the claim): for every configuration with trigger_price inside the
\* corridor and no negative threshold, no on_tick ends in an exception: no
\* percentage computation divides by zero.
C14_NeverRaises ==
    (IsTick /\ ValidSetting) => ~raised

\* C15 (the claim): construction rejects every configuration whose
\* trigger_price is outside [lower_price, upper_price] or which has a negative
\* percent threshold, so every grid state that exists belongs to a
\* configuration that is neither.
C15_InvalidRejected ==
    ValidSetting

\* C16: touch_up and touch_dn are independent: an on_tick that sends no sell
\* leaves an armed upside armed with its extreme, whatever it does to the
\* downside, and an on_tick that sends no buy leaves an armed downside armed
\* with its extreme; so ticks inside the corridor that swing across
\* trigger_price arm both sides (the witness).
C16_IndependentFlags ==
    [][ op'.kind = "on_tick" =>
        /\ (touch_up /\ ~\E i \in DOMAIN intents' : intents'[i].side = SHORT)
               => (touch_up' /\ highest_price' # None)
        /\ (touch_dn /\ ~\E i \in DOMAIN intents' : intents'[i].side = LONG)
               => (touch_dn' /\ lowest_price' # None) ]_vars

\* C16 witness: fed with in-corridor ticks alone, the algo has both sides
\* armed, the high above and the low below the trigger_price it was started
\* with, and has never sent an order.
C16_Witness ==
    /\ IsTick
    /\ touch_up /\ highest_price # None
    /\ touch_dn /\ lowest_price # None
    /\ trigger_price = setting.trigger_price
    /\ Val(lowest_price) < trigger_price
    /\ trigger_price < Val(highest_price)
    /\ open[SHORT] = 0 /\ open[LONG] = 0
    /\ ~grid_sleep /\ ~raised

\* The downside as the buy release finds it in the on_tick of a step: armed
\* before the call or by the call, with the low the call may have lowered.
C17_DnArmed ==
    \/ touch_dn
    \/ /\ op'.last_price < trigger_price
       /\ GE(Pct(trigger_price - op'.last_price, trigger_price),
             setting.fall_percent)
C17_Low ==
    IF op'.last_price < trigger_price
       /\ GE(Pct(trigger_price - op'.last_price, trigger_price),
             setting.fall_percent)
    THEN IF lowest_price = None THEN op'.last_price
         ELSE Min(op'.last_price, Val(lowest_price))
    ELSE Val(lowest_price)
\* The buy is due: armed, bounced by rise_up from the low, and let through by
\* the bias control against trigger_price as the sell release left it.
C17_BuyDue ==
    /\ C17_DnArmed
    /\ GE(Pct(op'.last_price - C17_Low, C17_Low), setting.rise_up)
    /\ \/ setting.give_up_bias <= 0
       \/ C10_BiasPasses(C10_TriggerAtBuy - op'.last_price, C10_TriggerAtBuy)

\* C17 (the claim): in every on_tick that passes the corridor check the buy
\* release is evaluated, whether or not the sell release has sent a sell:
\* the call sends a buy exactly when the buy is due.
C17_BuyAfterSell ==
    [][ C10_Awake => (C10_Bought <=> C17_BuyDue) ]_vars

\* The second half of C17: one on_tick has sent a sell and then a buy, the
\* buy at the trigger_price the call leaves, and both sides are disarmed.
C17_Witness ==
    /\ IsTick /\ ~grid_sleep /\ ~raised
    /\ SentNow(SHORT) = 1 /\ SentNow(LONG) = 1
    /\ intents[1].side = SHORT
    /\ trigger_price = intents[2].price
    /\ ~touch_up /\ ~touch_dn

\* The step is an on_tick of a rising sequence at or above the arming level:
\* last_price is inside the corridor, above every high recorded so far, and
\* at least trigger_price * (1 + rise_percent / 100).
C18_RisingAboveLevel ==
    /\ op'.kind = "on_tick"
    /\ setting.lower_price <= op'.last_price
    /\ op'.last_price <= setting.upper_price
    /\ op'.last_price > trigger_price
    /\ trigger_price # 0
    /\ GE(Pct(op'.last_price - trigger_price, trigger_price), setting.rise_percent)
    /\ (highest_price = None \/ op'.last_price > Val(highest_price))

C19_Setting ==
    [default_setting EXCEPT !.order_type = MARKET, !.multiple_order = FALSE]
C19_Last ==
    CHOOSE p \in Prices :
        /\ GE(Pct(p - C19_Setting.trigger_price, C19_Setting.trigger_price),
              C19_Setting.rise_percent)
        /\ \A q \in Prices :
               GE(Pct(q - C19_Setting.trigger_price, C19_Setting.trigger_price),
                  C19_Setting.rise_percent)
               => p <= q
\* The step is the first on_tick after construction, fed C19_Last.
C19_First ==
    /\ setting = C19_Setting
    /\ op.kind = "__init__"
    /\ op'.kind = "on_tick" /\ op'.last_price = C19_Last
\* The step is an on_tick fed C19_Last again, right after the state the
\* claim gives for the first: armed at C19_Last, nothing sent.
C19_SecondAsClaimed ==
    /\ setting = C19_Setting
    /\ op.kind = "on_tick" /\ op.last_price = C19_Last
    /\ touch_up /\ highest_price = Some(C19_Last) /\ intents = <<>>
    /\ op'.kind = "on_tick" /\ op'.last_price = C19_Last
\* The step is an on_tick fed C19_Last again, right after the state the first
\* on_tick leaves: the sell sent, the upside disarmed, trigger_price at the
\* sell price.
C19_Second ==
    /\ setting = C19_Setting
    /\ op.kind = "on_tick" /\ op.last_price = C19_Last
    /\ ~touch_up /\ ~touch_dn /\ pos = 0
    /\ intents = <<[side |-> SHORT, price |-> trigger_price,
                    volume |-> Float(setting.order_volume)]>>
    /\ op'.kind = "on_tick" /\ op'.last_price = C19_Last
\* The call sends one sell of order_volume at bid_price and nothing else, and
\* ends disarmed with trigger_price at bid_price.
C19_SellsAtBid(bid_price) ==
    /\ intents' = <<[side |-> SHORT, price |-> bid_price,
                     volume |-> Float(setting.order_volume)]>>
    /\ ~touch_up' /\ highest_price' = None
    /\ trigger_price' = bid_price

\* C19 (the claim as written): in Scenario A the first on_tick ends armed,
\* with highest_price at the price fed, and sends nothing; the second on_tick
\* at the same price sends exactly one sell of order_volume at bid_price,
\* clears touch_up and moves trigger_price to the sell price.
C19_ScenarioA ==
    [][ \A ask_price \in {C19_Last, C19_Last + 1} :
        \A bid_price \in {C19_Last - 1, C19_Last} :
           on_tick(C19_Last, ask_price, bid_price) =>
               /\ C19_First => /\ touch_up'
                               /\ highest_price' = Some(C19_Last)
                               /\ intents' = <<>>
               /\ C19_SecondAsClaimed => C19_SellsAtBid(bid_price) ]_vars

\* C19 (amended): in Scenario A the first on_tick arms the upside and, the
\* release condition 0 >= fall_down being met in the same call, itself sends
\* exactly one sell of order_volume at bid_price, and ends with touch_up
\* cleared, highest_price undefined and trigger_price at the sell price.  The
\* second on_tick at the same price measures the rise against that sell
\* price: it sends the same sell again if the price fed is still at least
\* rise_percent above it, and otherwise sends nothing and changes nothing.
C19_ScenarioASameCall ==
    [][ \A ask_price \in {C19_Last, C19_Last + 1} :
        \A bid_price \in {C19_Last - 1, C19_Last} :
           on_tick(C19_Last, ask_price, bid_price) =>
               /\ C19_First => C19_SellsAtBid(bid_price)
               /\ C19_Second =>
                      IF /\ C19_Last > trigger_price
                         /\ trigger_price # 0
                         /\ GE(Pct(C19_Last - trigger_price, trigger_price),
                               setting.rise_percent)
                      THEN C19_SellsAtBid(bid_price)
                      ELSE /\ intents' = <<>>
                           /\ UNCHANGED <<touch_up, touch_dn, highest_price,
                                          lowest_price, trigger_price>> ]_vars

\* C19 witness: Scenario A after its second on_tick: the first has sent the
\* sell at a bid_price equal to the price fed, the second has sent nothing
\* and left trigger_price at that sell price.
C19_Witness ==
    /\ setting = C19_Setting
    /\ IsTick /\ op.last_price = C19_Last
    /\ open[SHORT] = 1 /\ open[LONG] = 0
    /\ intents = <<>>
    /\ ~touch_up /\ highest_price = None
    /\ trigger_price = C19_Last
    /\ Len(puts) = 1

\* Scenario B on the model's scale: the setting of Scenario A with a
\* give_up_bias of half the arming threshold; the price jumps from
\* trigger_price to upper_price, a rise of at least rise_percent and of at
\* least give_up_bias.
C20_Setting ==
    [default_setting EXCEPT !.order_type = MARKET, !.multiple_order = FALSE,
                            !.give_up_bias = 5]
C20_Last == C20_Setting.upper_price

\* C20: in Scenario B the first on_tick after construction, fed a price whose
\* rise over trigger_price reaches rise_percent and give_up_bias, arms the
\* upside and meets the release condition but sends nothing: it ends with
\* touch_up set, highest_price at the price fed, and trigger_price unchanged.
C20_ScenarioB ==
    [][ (/\ setting = C20_Setting
         /\ op.kind = "__init__"
         /\ op'.kind = "on_tick" /\ op'.last_price = C20_Last)
        => /\ GE(Pct(C20_Last - trigger_price, trigger_price), setting.rise_percent)
           /\ GE(Pct(C20_Last - trigger_price, trigger_price), setting.give_up_bias)
           /\ intents' = <<>>
           /\ touch_up' /\ highest_price' = Some(C20_Last)
           /\ GE(Pct(Val(highest_price') - C20_Last, Val(highest_price')),
                 setting.fall_down)
           /\ trigger_price' = setting.trigger_price
           /\ ~raised' ]_vars

\* C20 witness: Scenario B after its on_tick: armed at the price fed, nothing
\* sent, trigger_price as configured.
C20_Witness ==
    /\ setting = C20_Setting
    /\ IsTick /\ op.last_price = C20_Last
    /\ touch_up /\ highest_price = Some(C20_Last)
    /\ ~touch_dn
    /\ intents = <<>>
    /\ open[SHORT] = 0 /\ open[LONG] = 0
    /\ trigger_price = setting.trigger_price

\* Scenario C on the model's scale: the setting of Scenario A, and a price
\* that falls from trigger_price to one step below lower_price, a fall of at
\* least fall_percent.
C21_Last == C19_Setting.lower_price - 1

\* C21: in Scenario C the first on_tick after construction, fed a price below
\* lower_price whose fall from trigger_price reaches fall_percent, puts the
\* grid to sleep and calls cancel_all, and neither arms the downside nor
\* sends an order: touch_dn stays false and lowest_price undefined.
C21_ScenarioC ==
    [][ (/\ setting = C19_Setting
         /\ op.kind = "__init__"
         /\ op'.kind = "on_tick" /\ op'.last_price = C21_Last)
        => /\ GE(Pct(trigger_price - C21_Last, trigger_price), setting.fall_percent)
           /\ grid_sleep'
           /\ cancels' = 1
           /\ ~touch_dn' /\ lowest_price' = None
           /\ ~touch_up' /\ highest_price' = None
           /\ intents' = <<>>
           /\ trigger_price' = trigger_price ]_vars

\* C21 witness: Scenario C after its on_tick: asleep by a tick below
\* lower_price that announced the sleep, cancel_all called, nothing armed,
\* nothing ever sent.
C21_Witness ==
    /\ setting = C19_Setting
    /\ IsTick /\ op.last_price = C21_Last
    /\ grid_sleep /\ cancels = 1 /\ Len(puts) = 1
    /\ ~touch_dn /\ lowest_price = None
    /\ ~touch_up /\ highest_price = None
    /\ open[SHORT] = 0 /\ open[LONG] = 0
    /\ trigger_price = setting.trigger_price

\* The sell and the buy sent by the on_tick of a step.
C22_Sell == intents'[CHOOSE i \in DOMAIN intents' : intents'[i].side = SHORT]
C22_Buy == intents'[CHOOSE i \in DOMAIN intents' : intents'[i].side = LONG]
\* The buy volume computed against trigger_price as the sell release left it.
C22_BuyVolume ==
    BuyClamp(Self,
             Times(BuyBaseVolume(C22_Buy.price),
                   IF setting.multiple_order
                   THEN BuyMultiple([trigger_price |-> C10_TriggerAtBuy], op'.last_price)
                   ELSE 1))

\* C22: an on_tick that sends a sell has cleared touch_up and highest_price
\* and moved trigger_price to the sell price before its buy release runs: a
\* buy sent by the same call has its multiple and its bias computed against
\* the sell price, not against the trigger_price the call started with; and
\* after an on_tick that sends a buy, trigger_price is the buy price.
C22_SellSeenByBuy ==
    [][ C10_Returned =>
        /\ C10_Sold => /\ ~touch_up' /\ highest_price' = None
                       /\ C10_TriggerAtBuy = C22_Sell.price
                       /\ ~C10_Bought => trigger_price' = C22_Sell.price
        /\ C10_Bought =>
               /\ C22_Buy.volume = C22_BuyVolume
               /\ setting.give_up_bias > 0
                      => C10_BiasPasses(C10_TriggerAtBuy - op'.last_price,
                                        C10_TriggerAtBuy)
               /\ trigger_price' = C22_Buy.price ]_vars

\* C22 witness: with multiple_order on, one on_tick has sent a sell and then
\* a buy at the same limit price; the buy, sized against the sell price, is
\* of a single order_volume, and trigger_price is the buy price.
C22_Witness ==
    /\ IsTick /\ ~grid_sleep /\ ~raised
    /\ setting.multiple_order /\ setting.order_type = LIMIT
    /\ Len(intents) = 2
    /\ intents[1].side = SHORT /\ intents[2].side = LONG
    /\ intents[1].price = intents[2].price
    /\ intents[2].volume = Float(setting.order_volume)
    /\ trigger_price = intents[2].price
    /\ op.last_price < setting.trigger_price

\* The on_tick of a step meets the arming condition of the upside (of the
\* downside) against the trigger_price the call starts with.
C23_ArmsUp ==
    /\ op'.last_price > trigger_price
    /\ trigger_price # 0
    /\ GE(Pct(op'.last_price - trigger_price, trigger_price), setting.rise_percent)
C23_ArmsDn ==
    /\ op'.last_price < trigger_price
    /\ trigger_price # 0
    /\ GE(Pct(trigger_price - op'.last_price, trigger_price), setting.fall_percent)

\* C23 (the claim): the arming of a call is seen by the releases of the same
\* call: with fall_down = 0, an on_tick that arms the upside and is not held
\* back by the bias control sends the sell in that same call and ends with
\* touch_up false and highest_price undefined; with rise_up = 0, an on_tick
\* that arms the downside and is not held back sends the buy and ends with
\* touch_dn false and lowest_price undefined.
C23_ArmAndReleaseInOneCall ==
    [][ C10_Awake =>
        /\ (/\ C23_ArmsUp
            /\ setting.fall_down = 0
            /\ \/ setting.give_up_bias = 0
               \/ C10_BiasPasses(op'.last_price - trigger_price, trigger_price))
           => (C10_Sold /\ ~touch_up' /\ highest_price' = None)
        /\ (/\ C23_ArmsDn
            /\ setting.rise_up = 0
            /\ \/ setting.give_up_bias = 0
               \/ C10_BiasPasses(C10_TriggerAtBuy - op'.last_price, C10_TriggerAtBuy))
           => (C10_Bought /\ ~touch_dn' /\ lowest_price' = None) ]_vars

\* C24: touch_up goes from false to true only in an on_tick that leaves the
\* grid awake and whose last_price is above trigger_price by at least
\* rise_percent (inclusive), and highest_price is then that last_price; when
\* the upside is already armed such a tick moves highest_price to the
\* maximum of it and last_price; every such tick that returns leaves the
\* upside armed unless it sent the sell.  touch_dn and lowest_price are the
\* mirror, with the minimum.  A tick at trigger_price arms neither side, and
\* no step arms both.
C24_ArmingConditions ==
    [][ /\ (~touch_up /\ touch_up')
               => /\ op'.kind = "on_tick" /\ ~grid_sleep'
                  /\ C23_ArmsUp
                  /\ highest_price' = Some(op'.last_price)
        /\ (~touch_dn /\ touch_dn')
               => /\ op'.kind = "on_tick" /\ ~grid_sleep'
                  /\ C23_ArmsDn
                  /\ lowest_price' = Some(op'.last_price)
        /\ (touch_up /\ touch_up' /\ op'.kind = "on_tick" /\ ~grid_sleep'
                /\ C23_ArmsUp)
               => highest_price' = Some(Max(op'.last_price, Val(highest_price)))
        /\ (touch_dn /\ touch_dn' /\ op'.kind = "on_tick" /\ ~grid_sleep'
                /\ C23_ArmsDn)
               => lowest_price' = Some(Min(op'.last_price, Val(lowest_price)))
        /\ (C10_Returned /\ C23_ArmsUp) => (touch_up' \/ C10_Sold)
        /\ (C10_Returned /\ C23_ArmsDn) => (touch_dn' \/ C10_Bought)
        /\ (op'.kind = "on_tick" /\ op'.last_price = trigger_price)
               => (touch_up' => touch_up) /\ (touch_dn' => touch_dn)
        /\ ~((~touch_up /\ touch_up') /\ (~touch_dn /\ touch_dn')) ]_vars

\* C24 witness: a tick exactly rise_percent above trigger_price has armed the
\* upside, with highest_price at its last_price, and sent nothing.
C24_Witness ==
    /\ IsTick /\ ~grid_sleep /\ ~raised
    /\ setting.rise_percent > 0
    /\ trigger_price # 0
    /\ Pct(op.last_price - trigger_price, trigger_price) = Float(setting.rise_percent)
    /\ touch_up /\ highest_price = Some(op.last_price)
    /\ ~touch_dn
    /\ intents = <<>>

\* The upside is armed when the sell release of the call runs: it was armed
\* before the call or the call's arming step arms it.
C25_UpArmed == touch_up \/ C23_ArmsUp
\* highest_price when the sell release of the call runs.
C25_High ==
    IF C23_ArmsUp
    THEN IF highest_price = None THEN op'.last_price
         ELSE Max(op'.last_price, Val(highest_price))
    ELSE Val(highest_price)

\* C25: a sell is sent only by an on_tick at whose release step touch_up is
\* true and (highest_price - last_price) / highest_price * 100 >= fall_down;
\* a buy only where touch_dn is true and
\* (last_price - lowest_price) / lowest_price * 100 >= rise_up.  No other
\* handler sends an order, and no order is sent for a side that is not armed.
C25_ReleaseConditions ==
    [][ /\ C10_Sold
               => /\ op'.kind = "on_tick" /\ ~grid_sleep'
                  /\ C25_UpArmed
                  /\ GE(Pct(C25_High - op'.last_price, C25_High), setting.fall_down)
        /\ C10_Bought
               => /\ op'.kind = "on_tick" /\ ~grid_sleep'
                  /\ C17_DnArmed
                  /\ GE(Pct(op'.last_price - C17_Low, C17_Low), setting.rise_up)
        /\ op'.kind # "on_tick" => intents' = <<>> ]_vars

\* C25 witness: the upside was armed by an earlier call at a higher price, and
\* this tick, fallen back from highest_price by exactly fall_down percent,
\* has sent the sell.
C25_Witness ==
    /\ IsTick /\ ~grid_sleep /\ ~raised
    /\ setting.fall_down > 0
    /\ SentNow(SHORT) = 1
    /\ ~touch_up /\ highest_price = None
    /\ setting.order_type = LIMIT
    /\ \E h \in Prices :
          /\ h > op.last_price
          /\ GE(Pct(h - op.last_price, h), setting.fall_down)

\* order_volume, or price / order_amount when order_amount > 0.
C26_Base(sell_price) ==
    IF setting.order_amount > 0
    THEN TrueDiv(sell_price, setting.order_amount)
    ELSE Float(setting.order_volume)
\* max(1, floor(rise_pct / rise_percent)), rise_pct against the trigger_price
\* the call starts with.
C26_Multiple ==
    Max(1, floor_to(Quotient(Pct(op'.last_price - trigger_price, trigger_price),
                             setting.rise_percent), 1))
C26_Multiplied(sell_price) ==
    IF setting.multiple_order
    THEN Times(C26_Base(sell_price), C26_Multiple)
    ELSE C26_Base(sell_price)
C26_Volume(sell_price) ==
    IF setting.min_position > 0
    THEN IF pos > setting.min_position
         THEN FloatMin(C26_Multiplied(sell_price), pos - setting.min_position)
         ELSE Zero
    ELSE C26_Multiplied(sell_price)

\* C26: the sell an on_tick sends has price bid_price under MARKET and
\* last_price - sell_offset under LIMIT, and volume order_volume (or
\* price / order_amount when order_amount > 0), times
\* max(1, floor(rise_pct / rise_percent)) under multiple_order, then with
\* min_position > 0 reduced to min(volume, pos - min_position) if
\* pos > min_position and to 0 otherwise.
C26_SellSizer ==
    [][ (op'.kind = "on_tick" /\ C10_Sold) =>
        /\ intents'[1].side = SHORT
        /\ intents'[1].volume = C26_Volume(intents'[1].price)
        /\ IF setting.order_type = MARKET
           THEN \A ask_price \in {op'.last_price, op'.last_price + 1} :
                \A bid_price \in {op'.last_price - 1, op'.last_price} :
                   on_tick(op'.last_price, ask_price, bid_price)
                       => intents'[1].price = bid_price
           ELSE intents'[1].price = op'.last_price - setting.sell_offset ]_vars

\* C26 witness: a limit sell sized from order_amount, which does not divide
\* the sell price, sent with a rise of more than twice rise_percent but less
\* than three times, so that the multiple is rounded down to 2: the volume is
\* twice price / order_amount and is not a whole number.
C26_Witness ==
    /\ IsTick /\ ~raised
    /\ setting.multiple_order /\ setting.min_position = 0
    /\ setting.order_amount > 0 /\ setting.rise_percent > 0
    /\ SentNow(SHORT) = 1
    /\ intents[1].side = SHORT
    /\ intents[1].price = op.last_price - setting.sell_offset
    /\ intents[1].volume
           = Times(TrueDiv(intents[1].price, setting.order_amount), 2)
    /\ ~IsWhole(intents[1].volume)
    /\ \E t \in Prices :
          /\ GT(Pct(op.last_price - t, t), 2 * setting.rise_percent)
          /\ LT(Pct(op.last_price - t, t), 3 * setting.rise_percent)

\* The buy price the claim states.
C27_Price(ask_price) ==
    IF setting.order_type = MARKET THEN ask_price
    ELSE op'.last_price + setting.buy_offset
C27_Base(ask_price) ==
    IF setting.order_amount > 0
    THEN TrueDiv(C27_Price(ask_price), setting.order_amount)
    ELSE Float(setting.order_volume)
\* max(1, ceil(fall_pct / fall_percent)), fall_pct against the trigger_price
\* the buy release reads.
C27_Multiple ==
    Max(1, ceil_to(Quotient(Pct(C10_TriggerAtBuy - op'.last_price, C10_TriggerAtBuy),
                            setting.fall_percent), 1))
C27_Multiplied(ask_price) ==
    IF setting.multiple_order
    THEN Times(C27_Base(ask_price), C27_Multiple)
    ELSE C27_Base(ask_price)
\* The clamp as the claim states it: 0 when pos is not below max_position.
C27_Volume(ask_price) ==
    IF setting.max_position > 0
    THEN IF pos < setting.max_position
         THEN FloatMin(C27_Multiplied(ask_price), setting.max_position - pos)
         ELSE Zero
    ELSE C27_Multiplied(ask_price)
C27_BuyIntent == intents'[CHOOSE i \in DOMAIN intents' : intents'[i].side = LONG]

\* C27 (the claim as written): the buy an on_tick sends has price ask_price
\* under MARKET and last_price + buy_offset under LIMIT, and volume
\* order_volume (or price / order_amount), times
\* max(1, ceil(fall_pct / fall_percent)) under multiple_order, then with
\* max_position > 0 reduced to min(volume, max_position - pos) if
\* pos < max_position and to 0 otherwise.
C27_BuySizerMirror ==
    [][ (op'.kind = "on_tick" /\ C10_Bought) =>
        \A ask_price \in {op'.last_price, op'.last_price + 1} :
        \A bid_price \in {op'.last_price - 1, op'.last_price} :
           on_tick(op'.last_price, ask_price, bid_price)
               => C27_BuyIntent = [side |-> LONG,
                                   price |-> C27_Price(ask_price),
                                   volume |-> C27_Volume(ask_price)] ]_vars

\* C28 (the claim as written): an on_tick calls cancel_all exactly when it
\* takes grid_sleep from false to true, and an on_tick with an in-corridor
\* price never calls it.
C28_CancelOnEnteringSleep ==
    [][ op'.kind = "on_tick" =>
        /\ (cancels' > 0) <=> (~grid_sleep /\ grid_sleep')
        /\ ~Outside(op'.last_price) => cancels' = 0 ]_vars

\* C28 (amended): an on_tick calls cancel_all once when its last_price is
\* outside the corridor, whether the grid was awake or already asleep, and
\* never when its last_price is inside the corridor; no other handler calls
\* it.
C28_CancelWheneverOutside ==
    cancels = IF IsTick /\ Outside(op.last_price) THEN 1 ELSE 0

\* C28 witness: a tick outside the corridor found the grid already asleep (it
\* published no snapshot) and called cancel_all again.
C28_Witness ==
    /\ IsTick /\ Outside(op.last_price)
    /\ grid_sleep /\ puts = <<>>
    /\ cancels = 1

\* C29: grid_sleep is changed only by on_tick; it goes from true to false
\* only for a last_price inside the corridor and from false to true only for
\* one outside; an on_tick that enters or stays in sleep leaves touch_up,
\* touch_dn, highest_price and lowest_price as they were, and the snapshot the
\* corridor check publishes on waking carries them as they were before the
\* call, so what was armed before the sleep is what the rest of the waking
\* call works on.
C29_SleepWrittenByCorridorCheck ==
    [][ /\ grid_sleep' # grid_sleep => op'.kind = "on_tick"
        /\ (grid_sleep /\ ~grid_sleep') => ~Outside(op'.last_price)
        /\ (~grid_sleep /\ grid_sleep') => Outside(op'.last_price)
        /\ (op'.kind = "on_tick" /\ grid_sleep')
               => UNCHANGED <<touch_up, touch_dn, highest_price, lowest_price>>
        /\ (grid_sleep /\ ~grid_sleep')
               => /\ Len(puts') >= 1
                  /\ puts'[1] = [variables(Self) EXCEPT !.grid_sleep = FALSE] ]_vars

\* C29 witness: the upside was armed before the sleep; the tick that wakes
\* the grid, below the highest_price kept through the sleep, releases the
\* sell waiting for a retrace.
C29_Witness ==
    /\ IsTick /\ ~grid_sleep /\ ~raised
    /\ setting.fall_down > 0
    /\ Len(puts) = 2
    /\ puts[1].touch_up /\ ~puts[1].grid_sleep
    /\ op.last_price < Val(puts[1].highest_price)
    /\ SentNow(SHORT) = 1
    /\ ~touch_up

\* C30: an on_tick never changes pos, and an on_tick that sends no order
\* leaves trigger_price unchanged; trigger_price changes only in an on_tick
\* that sends an order, in an on_trade, or in an on_position that finds
\* trigger_price <= 0.
C30_TriggerFrame ==
    [][ /\ op'.kind = "on_tick"
               => /\ pos' = pos
                  /\ intents' = <<>> => trigger_price' = trigger_price
        /\ trigger_price' # trigger_price
               => \/ op'.kind = "on_tick" /\ intents' # <<>>
                  \/ op'.kind = "on_trade"
                  \/ op'.kind = "on_position" /\ trigger_price <= 0 ]_vars

\* C30 witness: on an account holding a position, a tick whose sell was due
\* but held back by the bias control sent nothing, and trigger_price is
\* still the configured one.
C30_Witness ==
    /\ IsTick /\ ~grid_sleep /\ ~raised
    /\ pos > 0
    /\ setting.give_up_bias > 0
    /\ touch_up
    /\ GE(Pct(Val(highest_price) - op.last_price, Val(highest_price)),
          setting.fall_down)
    /\ intents = <<>>
    /\ trigger_price = setting.trigger_price
    /\ op.last_price # trigger_price

\* C31 (the claim as written): every order an on_tick sends has a volume
\* greater than 0; with min_position > 0 and pos <= min_position no sell is
\* sent and a tick that returns awake leaves an armed upside armed, and with
\* max_position > 0 and pos >= max_position no buy is sent and an armed
\* downside stays armed; a tick that sends nothing leaves trigger_price.
C31_PositiveVolume ==
    [][ op'.kind = "on_tick" =>
        /\ \A i \in DOMAIN intents' : GT(intents'[i].volume, 0)
        /\ (setting.min_position > 0 /\ pos <= setting.min_position)
               => /\ ~C10_Sold
                  /\ (C10_Returned /\ C25_UpArmed) => touch_up'
        /\ (setting.max_position > 0 /\ pos >= setting.max_position)
               => /\ ~C10_Bought
                  /\ (C10_Returned /\ C17_DnArmed) => touch_dn'
        /\ intents' = <<>> => trigger_price' = trigger_price ]_vars

\* C32 (the claim as written): when every order is filled at most once and
\* for at most its volume, at any time after it was sent, a position that
\* started at or above min_position > 0 never falls below it, and one that
\* started at or below max_position > 0 never exceeds it.
C32_LimitsUnderLateFills ==
    op.kind # "__init__" =>
        /\ setting.min_position > 0 => pos >= setting.min_position
        /\ setting.max_position > 0 => pos <= setting.max_position

\* C33 (the claim as written): after every on_tick that returns with the
\* grid awake, touch_up implies highest_price >= last_price and touch_dn
\* implies lowest_price <= last_price.
C33_TrueExtreme ==
    (IsTick /\ ~grid_sleep /\ ~raised) =>
        /\ touch_up => Val(highest_price) >= op.last_price
        /\ touch_dn => Val(lowest_price) <= op.last_price

\* C33 (amended): after an on_tick that returns with the grid awake and whose
\* last_price is at least rise_percent above the trigger_price it started
\* with, touch_up implies highest_price >= last_price; after one whose
\* last_price is at least fall_percent below, touch_dn implies
\* lowest_price <= last_price.  A tick that does not meet the arming
\* threshold against the current trigger_price does not move the extreme.
C33_ExtremeWhereArmingHolds ==
    [][ C10_Returned =>
        /\ (touch_up' /\ C23_ArmsUp) => Val(highest_price') >= op'.last_price
        /\ (touch_dn' /\ C23_ArmsDn) => Val(lowest_price') <= op'.last_price
        /\ (touch_up /\ touch_up' /\ ~C23_ArmsUp) => highest_price' = highest_price
        /\ (touch_dn /\ touch_dn' /\ ~C23_ArmsDn) => lowest_price' = lowest_price ]_vars

\* C33 witness: trigger_price was re-anchored after construction, and a tick
\* that meets the arming threshold against it has left the upside armed with
\* highest_price at its last_price, the sell waiting for a retrace.
C33_Witness ==
    /\ IsTick /\ ~grid_sleep /\ ~raised
    /\ trigger_price # setting.trigger_price
    /\ setting.fall_down > 0
    /\ touch_up /\ highest_price = Some(op.last_price)
    /\ op.last_price > trigger_price
    /\ trigger_price # 0
    /\ GE(Pct(op.last_price - trigger_price, trigger_price), setting.rise_percent)
    /\ intents = <<>>

\* C34: vt_orderid is empty in every reachable state, and in every snapshot
\* published: no handler stores the id of an order sent, and on_order only
\* resets it.
C34_OrderIdNeverKept ==
    /\ vt_orderid = ""
    /\ \A i \in DOMAIN puts : puts[i].vt_orderid = ""

\* C34 witness: a tick has sent a sell while an earlier buy is still
\* outstanding, and vt_orderid is empty.
C34_Witness ==
    /\ IsTick /\ ~raised
    /\ SentNow(SHORT) = 1 /\ SentNow(LONG) = 0
    /\ open[LONG] > 0
    /\ vt_orderid = ""

\* C35 (the claim as written): under an engine that exposes load_bar, every
\* on_bar that returns with the grid awake and has cleared an armed flag has
\* sent the order of that side, before on_start as well as after it.
C35_ReleaseSendsOrder ==
    [][ (op'.kind = "on_bar" /\ ~grid_sleep' /\ ~raised') =>
        /\ (C25_UpArmed /\ ~touch_up') => C10_Sold
        /\ (C17_DnArmed /\ ~touch_dn') => C10_Bought ]_vars

=============================================================================
